---- MODULE Spec2Model ----
(***************************************************************************)
(* RSVP speed reader (src/app.js): the word-pacing playback engine of      *)
(* class RSVPReader.  The state is the object's fields, the set of         *)
(* interval timers the host scheduler holds, the two button "disabled"     *)
(* flags that gate the click handlers, and the word display.  Each handler *)
(* wired in init() is one action; the interval callback is the Tick        *)
(* action of every timer the host still holds.                             *)
(*                                                                         *)
(* Strings are sequences of one-character strings.  The progress bar, the  *)
(* word counter and the font size are functions of currentWordIndex and    *)
(* words and are left out, as are switchTab and fetchFromURL, which        *)
(* reaches the engine only through loadText on a non-empty text.           *)
(***************************************************************************)
EXTENDS Integers, Sequences, FiniteSets, TLC

VARIABLES words, currentWordIndex, isPlaying, intervalId, wpm,
          timers, playBtnDisabled, pauseBtnDisabled, wordDisplay,
          out, op, arg, before, run, lastPos, cancelled

vars == <<words, currentWordIndex, isPlaying, intervalId, wpm,
          timers, playBtnDisabled, pauseBtnDisabled, wordDisplay,
          out, op, arg, before, run, lastPos, cancelled>>

----------------------------------------------------------------------------
(* Bounds of the model *)

\* longest text typed into the text box
MaxTextLen == 5

\* characters a text is made of: a letter and two kinds of whitespace
Chars == {"a", " ", "\n"}

\* what /\s/ and trim() treat as whitespace, among Chars
WS == {" ", "\n"}

Texts == UNION {[1..n -> Chars] : n \in 0..MaxTextLen}

\* the sample text loaded by the constructor, cut down to the model's alphabet
SampleText == <<"a", " ", "a", "a">>

\* values the rate slider delivers (strings of digits inside its range)
SliderValues == {<<"2", "0", "0">>, <<"4", "0", "0">>}

\* values updateWPM can be handed when called directly, also outside the range
ApiValues == SliderValues \cup {<<"0">>, <<"-", "5">>, <<"2", "0", "0", "0">>}

----------------------------------------------------------------------------
(* Program constants *)

\* this.intervalId = null: the falsy "no handle" value
NoTimer == 0

\* this.wpm = 250
DefaultWPM == 250

\* 60000 / this.wpm
MsPerMinute == 60000

\* configured bounds of the rate (the slider's range)
MinWPM == 100
MaxWPM == 1000

----------------------------------------------------------------------------
(* String helpers: String.prototype.trim, split(/\s+/), parseInt *)

RECURSIVE TrimStart(_)
TrimStart(t) == IF t # <<>> /\ Head(t) \in WS THEN TrimStart(Tail(t)) ELSE t

RECURSIVE TrimEnd(_)
TrimEnd(t) ==
    IF t # <<>> /\ t[Len(t)] \in WS THEN TrimEnd(SubSeq(t, 1, Len(t) - 1)) ELSE t

Trim(t) == TrimEnd(TrimStart(t))

\* text.split(/\s+/): the pieces between maximal whitespace runs, the empty
\* piece before a leading run and after a trailing run included
RECURSIVE SplitFrom(_, _, _)
SplitFrom(t, i, cur) ==
    IF i > Len(t) THEN <<cur>>
    ELSE IF t[i] \in WS
         THEN <<cur>> \o SplitFrom(TrimStart(SubSeq(t, i, Len(t))), 1, <<>>)
         ELSE SplitFrom(t, i + 1, Append(cur, t[i]))

SplitWS(t) == SplitFrom(t, 1, <<>>)

\* a filter that lets every piece through
FilterNonEmpty_keepsAll(ws) == ws

\* .filter(word => word.length > 0)
RECURSIVE FilterNonEmpty(_)
FilterNonEmpty(ws) ==
    IF ws = <<>> THEN <<>>
    ELSE IF Len(Head(ws)) > 0 THEN <<Head(ws)>> \o FilterNonEmpty(Tail(ws))
         ELSE FilterNonEmpty(Tail(ws))

\* .map(word => word.trim())
MapTrim(ws) == [i \in 1..Len(ws) |-> Trim(ws[i])]

Digits == {"0", "1", "2", "3", "4", "5", "6", "7", "8", "9"}

DigitVal(c) ==
    CASE c = "0" -> 0 [] c = "1" -> 1 [] c = "2" -> 2 [] c = "3" -> 3
      [] c = "4" -> 4 [] c = "5" -> 5 [] c = "6" -> 6 [] c = "7" -> 7
      [] c = "8" -> 8 [] c = "9" -> 9

RECURSIVE ParseDigits(_, _, _)
ParseDigits(v, i, acc) ==
    IF i > Len(v) \/ v[i] \notin Digits THEN acc
    ELSE ParseDigits(v, i + 1, acc * 10 + DigitVal(v[i]))

\* what parseInt yields when no digit follows the optional sign
NaN == "NaN"

\* parseInt(value): leading whitespace skipped, an optional sign, then the
\* longest run of digits; anything after it is ignored
ParseInt(v) ==
    LET t    == TrimStart(v)
        neg  == t # <<>> /\ Head(t) = "-"
        body == IF t # <<>> /\ Head(t) \in {"-", "+"} THEN Tail(t) ELSE t
    IN  IF body = <<>> \/ Head(body) \notin Digits THEN NaN
        ELSE IF neg THEN 0 - ParseDigits(body, 1, 0) ELSE ParseDigits(body, 1, 0)

----------------------------------------------------------------------------
(* What the presentation sink is told *)

WordChanged(p, w) == [type |-> "word", pos |-> p, word |-> w]
Finished == [type |-> "finished", pos |-> -1, word |-> <<>>]
EmptySequence == [type |-> "alert", pos |-> -1, word |-> <<>>]

\* wordDisplay.textContent
ShowWord(w) == [msg |-> "word", word |-> w]
ReadyToStart == [msg |-> "Ready to Start", word |-> <<>>]
StartReading == [msg |-> "Start Reading", word |-> <<>>]
FinishedText == [msg |-> "Finished!", word |-> <<>>]

----------------------------------------------------------------------------
(* The methods of RSVPReader, as functions of the object's state s *)

Self ==
    [words |-> words, currentWordIndex |-> currentWordIndex,
     isPlaying |-> isPlaying, intervalId |-> intervalId, wpm |-> wpm,
     timers |-> timers, playBtnDisabled |-> playBtnDisabled,
     pauseBtnDisabled |-> pauseBtnDisabled, wordDisplay |-> wordDisplay,
     out |-> <<>>]

tokenize(text) == MapTrim(FilterNonEmpty(SplitWS(text)))

loadText(s, text) ==
    IF text = <<>> \/ Trim(text) = <<>>
    THEN [s EXCEPT !.words = <<>>]
    ELSE LET w == tokenize(text)
         IN  [s EXCEPT !.words = w,
                       !.currentWordIndex = 0,
                       !.wordDisplay = IF Len(w) > 0 THEN ReadyToStart ELSE @]

displayWord(s) ==
    IF s.currentWordIndex < Len(s.words)
    THEN LET word == s.words[s.currentWordIndex + 1]
         IN  [s EXCEPT !.wordDisplay = ShowWord(word),
                       !.out = Append(@, WordChanged(s.currentWordIndex, word))]
    ELSE s

\* const msPerWord = 60000 / this.wpm, kept as the fraction <<60000, wpm>>
msPerWord(rate) == <<MsPerMinute, rate>>

TimerIds(ts) == {t.id : t \in ts}

\* setInterval returns a handle no live timer has
FreshId(ts) ==
    CHOOSE i \in 1..(Cardinality(ts) + 1) :
        /\ i \notin TimerIds(ts)
        /\ \A j \in 1..(i - 1) : j \in TimerIds(ts)

setInterval(s, ms) ==
    LET id == FreshId(s.timers)
    IN  [s EXCEPT !.timers = @ \cup {[id |-> id, ms |-> ms]},
                  !.intervalId = id]

clearInterval(ts, id) == {t \in ts : t.id # id}

\* pause() that forgets clearInterval
pause_keepsTimer(s) ==
    [s EXCEPT !.isPlaying = FALSE,
              !.playBtnDisabled = FALSE,
              !.pauseBtnDisabled = TRUE]

\* pause() written as a play/pause toggle
pause_toggles(s) ==
    LET s1 == [s EXCEPT !.isPlaying = ~s.isPlaying,
                        !.playBtnDisabled = FALSE,
                        !.pauseBtnDisabled = TRUE]
    IN  IF s1.intervalId # NoTimer
        THEN [s1 EXCEPT !.timers = clearInterval(@, s1.intervalId),
                        !.intervalId = NoTimer]
        ELSE s1

pause(s) ==
    LET s1 == [s EXCEPT !.isPlaying = FALSE,
                        !.playBtnDisabled = FALSE,
                        !.pauseBtnDisabled = TRUE]
    IN  IF s1.intervalId # NoTimer
        THEN [s1 EXCEPT !.timers = clearInterval(@, s1.intervalId),
                        !.intervalId = NoTimer]
        ELSE s1

\* play() that raises the playing flag before it looks at the words
play_flagsFirst(s) ==
    LET s2 == [s EXCEPT !.isPlaying = TRUE,
                        !.playBtnDisabled = TRUE,
                        !.pauseBtnDisabled = FALSE]
    IN  IF Len(s.words) = 0
        THEN [s2 EXCEPT !.out = Append(@, EmptySequence)]
        ELSE LET s1 == IF s2.currentWordIndex >= Len(s2.words)
                       THEN [s2 EXCEPT !.currentWordIndex = 0] ELSE s2
             IN  setInterval(displayWord(s1), msPerWord(s1.wpm))

\* play() that always starts over from the first word
play_fromStart(s) ==
    IF Len(s.words) = 0
    THEN [s EXCEPT !.out = Append(@, EmptySequence)]
    ELSE LET s2 == [s EXCEPT !.currentWordIndex = 0,
                             !.isPlaying = TRUE,
                             !.playBtnDisabled = TRUE,
                             !.pauseBtnDisabled = FALSE]
         IN  setInterval(displayWord(s2), msPerWord(s2.wpm))

\* play() that never goes back to the first word
play_noRestart(s) ==
    IF Len(s.words) = 0
    THEN [s EXCEPT !.out = Append(@, EmptySequence)]
    ELSE LET s2 == [s EXCEPT !.isPlaying = TRUE,
                             !.playBtnDisabled = TRUE,
                             !.pauseBtnDisabled = FALSE]
         IN  setInterval(displayWord(s2), msPerWord(s2.wpm))

\* play() that leaves the play button enabled
play_leavesButton(s) ==
    IF Len(s.words) = 0
    THEN [s EXCEPT !.out = Append(@, EmptySequence)]
    ELSE LET s1 == IF s.currentWordIndex >= Len(s.words)
                   THEN [s EXCEPT !.currentWordIndex = 0] ELSE s
             s2 == [s1 EXCEPT !.isPlaying = TRUE,
                              !.pauseBtnDisabled = FALSE]
         IN  setInterval(displayWord(s2), msPerWord(s2.wpm))

play(s) ==
    IF Len(s.words) = 0
    THEN [s EXCEPT !.out = Append(@, EmptySequence)]
    ELSE LET s1 == IF s.currentWordIndex >= Len(s.words)
                   THEN [s EXCEPT !.currentWordIndex = 0] ELSE s
             s2 == [s1 EXCEPT !.isPlaying = TRUE,
                              !.playBtnDisabled = TRUE,
                              !.pauseBtnDisabled = FALSE]
             s3 == displayWord(s2)
         IN  setInterval(s3, msPerWord(s3.wpm))

\* a callback that shows the word before it advances
intervalCallback_displayFirst(s) ==
    LET s1 == displayWord(s)
        s2 == [s1 EXCEPT !.currentWordIndex = @ + 1]
    IN  IF s2.currentWordIndex >= Len(s2.words)
        THEN [pause(s2) EXCEPT !.wordDisplay = FinishedText,
                               !.out = Append(@, Finished)]
        ELSE s2

\* a callback that advances by two words
intervalCallback_skips(s) ==
    LET s1 == [s EXCEPT !.currentWordIndex = @ + 2]
    IN  IF s1.currentWordIndex >= Len(s1.words)
        THEN [pause(s1) EXCEPT !.wordDisplay = FinishedText,
                               !.out = Append(@, Finished)]
        ELSE displayWord(s1)

\* the callback handed to setInterval
intervalCallback(s) ==
    LET s1 == [s EXCEPT !.currentWordIndex = @ + 1]
    IN  IF s1.currentWordIndex >= Len(s1.words)
        THEN [pause(s1) EXCEPT !.wordDisplay = FinishedText,
                               !.out = Append(@, Finished)]
        ELSE displayWord(s1)

\* reset() that rewinds without stopping playback
reset_noPause(s) ==
    [s EXCEPT !.currentWordIndex = 0,
              !.wordDisplay = IF Len(s.words) > 0 THEN ReadyToStart
                              ELSE StartReading]

reset(s) ==
    LET s1 == pause(s)
    IN  [s1 EXCEPT !.currentWordIndex = 0,
                   !.wordDisplay = IF Len(s1.words) > 0 THEN ReadyToStart
                                   ELSE StartReading]

\* updateWPM() that stores the rate and lets the running timer be
updateWPM_noRestart(s, value) == [s EXCEPT !.wpm = ParseInt(value)]

\* updateWPM() that restarts playback whatever the state
updateWPM_alwaysRestarts(s, value) ==
    play(pause([s EXCEPT !.wpm = ParseInt(value)]))

updateWPM(s, value) ==
    LET s1 == [s EXCEPT !.wpm = ParseInt(value)]
    IN  IF s1.isPlaying THEN play(pause(s1)) ELSE s1

----------------------------------------------------------------------------
(* Observation of a run: what the last handler told the sink (out), which   *)
(* handler ran last (op), on which value (arg) and in which playback state  *)
(* (before), the                                                            *)
(* notifications since the last play() that only timer ticks followed      *)
(* (run), the position of the last word-changed                             *)
(* notification of the current pass through the sequence (lastPos, -1 when  *)
(* the pass has notified nothing yet), and whether a cancelling handler     *)
(* (pause, reset, load) has returned with no play() succeeding since        *)
(* (cancelled).                                                             *)

\* play() called on s starts over from the first word
Restarts(s) == Len(s.words) > 0 /\ s.currentWordIndex >= Len(s.words)

WordPositions(o) == {o[i].pos : i \in {j \in DOMAIN o : o[j].type = "word"}}

\* the position last notified, after a handler that emitted o
NextLastPos(base, o) ==
    IF WordPositions(o) = {} THEN base
    ELSE CHOOSE p \in WordPositions(o) : \A q \in WordPositions(o) : q <= p

\* The playback state the fields stand for: Playing while isPlaying is set;
\* Finished when the index has reached the end of a non-empty sequence; Idle
\* while the display shows no word (never started, reset or freshly loaded);
\* Paused otherwise.
PlaybackState(s) ==
    IF s.isPlaying THEN "Playing"
    ELSE IF Restarts(s) THEN "Finished"
    ELSE IF s.wordDisplay \in {ReadyToStart, StartReading} THEN "Idle"
    ELSE "Paused"

Commit(s, name) ==
    /\ before' = PlaybackState(Self)
    /\ words' = s.words
    /\ currentWordIndex' = s.currentWordIndex
    /\ isPlaying' = s.isPlaying
    /\ intervalId' = s.intervalId
    /\ wpm' = s.wpm
    /\ timers' = s.timers
    /\ playBtnDisabled' = s.playBtnDisabled
    /\ pauseBtnDisabled' = s.pauseBtnDisabled
    /\ wordDisplay' = s.wordDisplay
    /\ out' = s.out
    /\ op' = name

----------------------------------------------------------------------------
(* The state after new RSVPReader(): the constructor's fields, then init(), *)
(* which loads the sample text.  Whether the two buttons start disabled is  *)
(* set by the page, so both values are possible.                            *)

Init ==
    LET s0 == [words |-> <<>>, currentWordIndex |-> 0, isPlaying |-> FALSE,
               intervalId |-> NoTimer, wpm |-> DefaultWPM, timers |-> {},
               playBtnDisabled |-> FALSE, pauseBtnDisabled |-> FALSE,
               wordDisplay |-> StartReading, out |-> <<>>]
        s  == loadText(s0, SampleText)
    IN  /\ words = s.words
        /\ currentWordIndex = s.currentWordIndex
        /\ isPlaying = s.isPlaying
        /\ intervalId = s.intervalId
        /\ wpm = s.wpm
        /\ timers = s.timers
        /\ playBtnDisabled \in BOOLEAN
        /\ pauseBtnDisabled \in BOOLEAN
        /\ wordDisplay = s.wordDisplay
        /\ out = <<>>
        /\ op = "init"
        /\ arg = <<>>
        /\ before = "Idle"
        /\ run = <<>>
        /\ lastPos = -1
        /\ cancelled = TRUE

----------------------------------------------------------------------------
(* The handlers wired in init().  A disabled button delivers no click.      *)

\* playBtn click -> this.play()
ClickPlay ==
    /\ ~playBtnDisabled
    /\ LET s == play(Self)
       IN  /\ Commit(s, "play")
           /\ arg' = <<>>
           /\ run' = IF s.isPlaying THEN s.out ELSE <<>>
           /\ lastPos' = NextLastPos(IF Restarts(Self) THEN -1 ELSE lastPos, s.out)
           /\ cancelled' = IF s.isPlaying THEN FALSE ELSE cancelled

\* pauseBtn click -> this.pause()
ClickPause ==
    /\ ~pauseBtnDisabled
    /\ Commit(pause(Self), "pause")
    /\ arg' = <<>>
    /\ run' = <<>>
    /\ lastPos' = lastPos
    /\ cancelled' = TRUE

\* resetBtn click -> this.reset()
ClickReset ==
    /\ Commit(reset(Self), "reset")
    /\ arg' = <<>>
    /\ run' = <<>>
    /\ lastPos' = -1
    /\ cancelled' = TRUE

\* textInput input -> this.loadText(this.textInput.value)
Input(text) ==
    /\ Commit(loadText(Self, text), "loadText")
    /\ arg' = <<>>
    /\ run' = <<>>
    /\ lastPos' = -1
    /\ cancelled' = TRUE

\* wpmSlider input -> this.updateWPM(e.target.value)
WpmInput(value) ==
    LET s == updateWPM(Self, value)
    IN  /\ Commit(s, "updateWPM")
        /\ arg' = value
        /\ run' = IF isPlaying /\ s.isPlaying THEN s.out ELSE <<>>
        /\ lastPos' = NextLastPos(lastPos, s.out)
        /\ cancelled' = IF isPlaying THEN ~s.isPlaying ELSE cancelled

\* the host scheduler fires the callback of a timer it still holds
Tick(t) ==
    LET s == intervalCallback(Self)
    IN  /\ t \in timers
        /\ Commit(s, "tick")
        /\ arg' = <<>>
        /\ run' = IF run # <<>> THEN run \o s.out ELSE <<>>
        /\ lastPos' = NextLastPos(lastPos, s.out)
        /\ cancelled' = IF s.isPlaying THEN cancelled ELSE TRUE

Next ==
    \/ ClickPlay
    \/ ClickPause
    \/ ClickReset
    \/ \E text \in Texts : Input(text)
    \/ \E value \in SliderValues : WpmInput(value)
    \/ \E t \in timers : Tick(t)

Spec == Init /\ [][Next]_vars

\* the host scheduler keeps firing the callback of a timer it holds
SpecLive == Init /\ [][Next]_vars /\ WF_vars(\E t \in timers : Tick(t))

\* the same program with updateWPM handed any value, not only the slider's
NextApi ==
    \/ ClickPlay
    \/ ClickPause
    \/ ClickReset
    \/ \E text \in Texts : Input(text)
    \/ \E value \in ApiValues : WpmInput(value)
    \/ \E t \in timers : Tick(t)

SpecApi == Init /\ [][NextApi]_vars

----------------------------------------------------------------------------
(* The tokenizer alone: a freshly constructed reader, before any text is    *)
(* loaded, is handed one text (arg) and loadText runs on it.                *)

Constructed ==
    [words |-> <<>>, currentWordIndex |-> 0, isPlaying |-> FALSE,
     intervalId |-> NoTimer, wpm |-> DefaultWPM, timers |-> {},
     playBtnDisabled |-> FALSE, pauseBtnDisabled |-> FALSE,
     wordDisplay |-> StartReading, out |-> <<>>]

InitTok ==
    /\ words = Constructed.words
    /\ currentWordIndex = Constructed.currentWordIndex
    /\ isPlaying = Constructed.isPlaying
    /\ intervalId = Constructed.intervalId
    /\ wpm = Constructed.wpm
    /\ timers = Constructed.timers
    /\ playBtnDisabled = Constructed.playBtnDisabled
    /\ pauseBtnDisabled = Constructed.pauseBtnDisabled
    /\ wordDisplay = Constructed.wordDisplay
    /\ out = <<>>
    /\ op = "init"
    /\ arg \in Texts
    /\ before = "Idle"
    /\ run = <<>>
    /\ lastPos = -1
    /\ cancelled = TRUE

\* this.loadText(text) on the text handed in
LoadArg ==
    /\ op = "init"
    /\ Commit(loadText(Self, arg), "loadText")
    /\ arg' = arg
    /\ run' = <<>>
    /\ lastPos' = -1
    /\ cancelled' = TRUE

NextTok == LoadArg

SpecTok == InitTok /\ [][NextTok]_vars

----------------------------------------------------------------------------
(* Properties *)

\* the rate lies inside the configured bounds
ValidRate(r) == r >= MinWPM /\ r <= MaxWPM

\* the fields of the engine
engine == <<words, currentWordIndex, isPlaying, intervalId, wpm, timers>>

\* C1: in every reachable state a timer is live if and only if the engine is
\* Playing, and when it is Playing exactly one timer is live.
C1_TimerIffPlaying ==
    /\ (timers # {}) <=> isPlaying
    /\ isPlaying => Cardinality(timers) = 1

\* C1 witness: Playing with one live timer after a rate change restarted it
\* past the first word
C1_Witness ==
    /\ op = "updateWPM" /\ isPlaying /\ Cardinality(timers) = 1
    /\ currentWordIndex > 0

\* C2: load of a new word sequence, from any prior state and for any
\* sequence, leaves Position equal to 0 and the engine not Playing.
C2_LoadResets ==
    op = "loadText" => currentWordIndex = 0 /\ ~isPlaying /\ timers = {}

\* C3: in every reachable state 0 <= Position <= length of the loaded word
\* sequence.
C3_PositionInRange ==
    0 <= currentWordIndex /\ currentWordIndex <= Len(words)

\* C4: after pause, reset or load has returned, and until the next successful
\* play(), Position does not advance and no word-changed or finished
\* notification is produced.
C4_NoTickAfterCancel ==
    [][cancelled /\ cancelled' =>
         /\ currentWordIndex' <= currentWordIndex
         /\ \A i \in DOMAIN out' : out'[i].type = "alert"]_vars

\* C5: setRate with a valid rate while Playing leaves Position and the word
\* sequence unchanged and the engine Playing with exactly one live timer, and
\* a tick advances Position by exactly one.
C5_RateChangeKeepsPlaying ==
    [][/\ (op' = "updateWPM" /\ isPlaying /\ ValidRate(wpm')) =>
            /\ currentWordIndex' = currentWordIndex
            /\ words' = words
            /\ isPlaying'
            /\ Cardinality(timers') = 1
       /\ op' = "tick" => currentWordIndex' = currentWordIndex + 1]_vars

\* C6: play() on an empty word sequence reports EmptySequence and changes
\* nothing: the engine's fields, the buttons and the display are after the
\* call what they were before it (for the play() inside updateWPM: what the
\* pause() before it left).
C6_EmptyPlayChangesNothing ==
    [][/\ (op' = "play" /\ Len(words) = 0) =>
            /\ out' = <<EmptySequence>>
            /\ UNCHANGED <<engine, playBtnDisabled, pauseBtnDisabled, wordDisplay>>
       /\ (op' = "updateWPM" /\ isPlaying /\ Len(words) = 0) =>
            LET s == pause([Self EXCEPT !.wpm = wpm'])
            IN  /\ out' = <<EmptySequence>>
                /\ engine' = <<s.words, s.currentWordIndex, s.isPlaying,
                               s.intervalId, s.wpm, s.timers>>
                /\ playBtnDisabled' = s.playBtnDisabled
                /\ pauseBtnDisabled' = s.pauseBtnDisabled
                /\ wordDisplay' = s.wordDisplay]_vars

\* C6 witness: the play button was clicked with no words loaded and the
\* engine reported EmptySequence
C6_Witness ==
    op = "play" /\ Len(words) = 0 /\ out = <<EmptySequence>> /\ ~isPlaying

\* C7: setRate with a rate outside the configured bounds leaves Rate,
\* Position, playback state and timer unchanged (and reports InvalidRate,
\* which no handler does: the only report is the EmptySequence alert).
C7_InvalidRateRejected ==
    [][(op' = "updateWPM" /\ ~ValidRate(ParseInt(arg'))) =>
         UNCHANGED <<wpm, currentWordIndex, isPlaying, timers>>]_vars

\* C8: play() from Position p < n followed only by timer ticks notifies the
\* word at p at once, then one word per tick for p+1, ..., n-1 in that order,
\* and on the next tick finished, with Position = n, the engine not Playing
\* and the timer stopped.
C8_PlayThenTicks ==
    run # <<>> =>
        LET p == run[1].pos
            n == Len(words)
        IN  /\ p >= 0 /\ p < n
            /\ Len(run) = currentWordIndex - p + 1
            /\ \A i \in 1..Len(run) :
                 \/ /\ p + i - 1 < n
                    /\ run[i] = WordChanged(p + i - 1, words[p + i])
                 \/ /\ p + i - 1 = n
                    /\ i = Len(run)
                    /\ run[i] = Finished
                    /\ ~isPlaying /\ timers = {} /\ currentWordIndex = n
            /\ isPlaying => currentWordIndex < n

\* C8 witness: a sequence of three words played from the first word to the end
C8_Witness ==
    /\ Len(words) = 3 /\ Len(run) = 4
    /\ run[1].pos = 0 /\ run[4] = Finished

\* the position the current pass last notified, as a handler that starts a
\* new pass (load, reset, play from Finished) sees it
PassBase ==
    IF op' \in {"loadText", "reset"} \/ (op' = "play" /\ Restarts(Self))
    THEN -1 ELSE lastPos

\* C9 as stated: within one pass, word-changed notifications come in strictly
\* increasing Position order with no gaps and no duplicates.
C9_StrictlyIncreasing ==
    [][\A p \in WordPositions(out') : PassBase # -1 => p = PassBase + 1]_vars

\* C9 amended: within one pass a timer tick notifies the Position after the
\* last one notified, and play() (a resume, or the restart inside setRate)
\* notifies the last one again: no Position is skipped and none goes back.
C9_NoGapNoReturn ==
    [][\A p \in WordPositions(out') : PassBase # -1 =>
         \/ op' = "tick" /\ p = PassBase + 1
         \/ op' \in {"play", "updateWPM"} /\ p = PassBase]_vars

\* C9 witness: a resume has notified again the Position the pass had reached
C9_Witness ==
    /\ op = "play" /\ lastPos > 0 /\ lastPos = currentWordIndex
    /\ out = <<WordChanged(lastPos, words[lastPos + 1])>>

\* C10: pause() leaves Position unchanged, and a play() that follows it on a
\* loaded sequence resumes there: Position is unchanged and the word notified
\* is the word at that Position.
C10_ResumeAtPausedPosition ==
    [][/\ op' = "pause" => currentWordIndex' = currentWordIndex
       /\ (op = "pause" /\ op' = "play" /\ Len(words) > 0) =>
            /\ currentWordIndex' = currentWordIndex
            /\ isPlaying'
            /\ out' = <<WordChanged(currentWordIndex,
                                    words[currentWordIndex + 1])>>]_vars

\* C10 witness: playback paused at the third word and resumed there
C10_Witness ==
    /\ op = "play" /\ isPlaying /\ currentWordIndex = 2
    /\ wordDisplay = ShowWord(words[3])

\* C11: play() in the Finished state (Position = length of a non-empty
\* sequence) sets Position to 0 before starting: the engine becomes Playing
\* and the word notified is the word at position 0.
C11_RestartFromFinished ==
    [][(op' = "play" /\ Restarts(Self)) =>
         /\ currentWordIndex' = 0
         /\ isPlaying'
         /\ Cardinality(timers') = 1
         /\ out' = <<WordChanged(0, words[1])>>]_vars

\* C11 witness: the play button was clicked in Finished and playback runs
\* again from the first word
C11_Witness ==
    /\ op = "play" /\ before = "Finished"
    /\ isPlaying /\ currentWordIndex = 0 /\ wordDisplay = ShowWord(words[1])

\* C12: reset(), from any state, leaves the engine Idle with Position 0 and
\* no live timer, and leaves the word sequence and the Rate unchanged.
C12_ResetToIdle ==
    [][op' = "reset" =>
         /\ currentWordIndex' = 0
         /\ PlaybackState(Self)' = "Idle"
         /\ ~isPlaying'
         /\ timers' = {} /\ intervalId' = NoTimer
         /\ UNCHANGED <<words, wpm>>]_vars

\* C12 witness: reset was clicked while Playing at a rate set on the slider
C12_Witness ==
    /\ op = "reset" /\ before = "Playing" /\ currentWordIndex = 0
    /\ wordDisplay = ReadyToStart /\ wpm # DefaultWPM

\* the engine's fields in the object state s
engineOf(s) ==
    <<s.words, s.currentWordIndex, s.isPlaying, s.intervalId, s.wpm, s.timers>>

\* C13: pause() when the engine is not Playing is a no-op: it reports nothing
\* and leaves playback state, Position, Rate, word sequence and timer as they
\* were, whether the pause button calls it or reset() does; and pause() after
\* pause() leaves what one pause() leaves.
C13_PauseIdempotent ==
    [][/\ ~isPlaying =>
            /\ engineOf(pause(Self)) = engine
            /\ pause(Self).out = <<>>
            /\ PlaybackState(pause(Self)) = PlaybackState(Self)
       /\ (op' = "pause" /\ ~isPlaying) =>
            /\ UNCHANGED engine
            /\ out' = <<>>
            /\ PlaybackState(Self)' = PlaybackState(Self)
       /\ pause(pause(Self)) = pause(Self)]_vars

\* C13 witness: the pause button was clicked while Idle and nothing moved
C13_Witness ==
    /\ op = "pause" /\ before = "Idle"
    /\ ~isPlaying /\ timers = {} /\ out = <<>> /\ pauseBtnDisabled

\* t[i..j] is a maximal run of non-whitespace characters of t
IsRun(t, i, j) ==
    /\ i <= j
    /\ \A k \in i..j : t[k] \notin WS
    /\ i = 1 \/ t[i - 1] \in WS
    /\ j = Len(t) \/ t[j + 1] \in WS

Runs(t) == {r \in (1..Len(t)) \X (1..Len(t)) : IsRun(t, r[1], r[2])}

\* C14: for every input text, the words loaded are the whitespace-delimited
\* fragments of the text in their original order, none of them empty and none
\* containing whitespace; an empty or whitespace-only text gives no words.
C14_TokenizeFragments ==
    op = "loadText" =>
        /\ Len(words) = Cardinality(Runs(arg))
        /\ \A r \in Runs(arg) :
             words[Cardinality({q \in Runs(arg) : q[1] < r[1]}) + 1]
                 = SubSeq(arg, r[1], r[2])
        /\ \A i \in 1..Len(words) :
             /\ words[i] # <<>>
             /\ \A k \in 1..Len(words[i]) : words[i][k] \notin WS
        /\ (\A k \in 1..Len(arg) : arg[k] \in WS) => words = <<>>

\* C14 witness: a text with leading whitespace and a run of two whitespace
\* characters between its two words has been loaded
C14_Witness ==
    /\ op = "loadText" /\ Len(words) = 2
    /\ arg # <<>> /\ Head(arg) \in WS
    /\ \E k \in 1..(Len(arg) - 1) : arg[k] \in WS /\ arg[k + 1] \in WS

\* C15: whenever a timer is live, its interval is 60000 / r milliseconds for
\* the engine's current Rate r, whether the rate was set before play() or
\* while Playing.
C15_IntervalFollowsRate ==
    \A t \in timers : t.ms = <<60000, wpm>> /\ wpm > 0

\* C15 witness: the rate was changed while Paused and the timer play() then
\* started runs at the new rate's interval
C15_Witness ==
    /\ op = "play" /\ before = "Paused" /\ wpm = 400
    /\ timers = {[id |-> 1, ms |-> <<60000, 400>>]}

\* C16: Position equals the length of a non-empty sequence only in the
\* Finished state with no timer live; and whenever the engine is Playing,
\* Position < length, so that a current word exists.
C16_EndOnlyWhenFinished ==
    /\ (Len(words) > 0 /\ currentWordIndex = Len(words)) =>
           PlaybackState(Self) = "Finished" /\ timers = {}
    /\ isPlaying => currentWordIndex < Len(words)

\* C17: a timer tick increases Position by exactly 1; reset, load and play
\* from Finished set it to 0; pause, setRate, a failed play and play from
\* Idle or Paused leave it unchanged; only load changes the word sequence.
C17_PositionFrame ==
    [][/\ op' = "tick" => currentWordIndex' = currentWordIndex + 1
       /\ op' \in {"reset", "loadText"} => currentWordIndex' = 0
       /\ (op' = "play" /\ Restarts(Self)) => currentWordIndex' = 0
       /\ (op' = "play" /\ ~Restarts(Self)) =>
              currentWordIndex' = currentWordIndex
       /\ op' \in {"pause", "updateWPM"} => currentWordIndex' = currentWordIndex
       /\ op' # "loadText" => words' = words]_vars

\* at most one timer is outstanding, the handle kept is its handle, and the
\* play button is disabled while playing
OneTimer ==
    /\ Cardinality(timers) <= 1
    /\ timers # {} => intervalId \in TimerIds(timers)
    /\ isPlaying => playBtnDisabled

\* C18: at most one interval timer is outstanding at any time: play() never
\* starts a timer while another one is live (the play button is disabled from
\* a successful play() until the next pause()), so no live handle is
\* overwritten and left running.
C18_SingleTimer ==
    [][/\ OneTimer /\ OneTimer'
       /\ (timers' \ timers) # {} =>
              /\ op' \in {"play", "updateWPM"}
              /\ Cardinality(timers' \ timers) = 1
              /\ op' = "play" => timers = {}
              /\ op' = "updateWPM" => timers' \cap timers = {}]_vars

\* C18 witness: a timer is running, its handle is the one kept, and the play
\* button is disabled
C18_Witness ==
    /\ op = "play" /\ isPlaying /\ playBtnDisabled /\ ~pauseBtnDisabled
    /\ Cardinality(timers) = 1 /\ intervalId \in TimerIds(timers)

\* C19: setRate with a valid rate while the engine is not Playing changes
\* only the Rate: it starts no timer, notifies nothing, and leaves playback
\* state and Position unchanged.
C19_RateOnlyWhenStopped ==
    [][(op' = "updateWPM" /\ ~isPlaying /\ ValidRate(ParseInt(arg'))) =>
         /\ wpm' = ParseInt(arg')
         /\ timers' = {} /\ out' = <<>>
         /\ PlaybackState(Self)' = PlaybackState(Self)
         /\ UNCHANGED <<words, currentWordIndex, isPlaying, intervalId,
                        wordDisplay>>]_vars

\* C19 witness: the rate was changed while Paused past the first word
C19_Witness ==
    /\ op = "updateWPM" /\ before = "Paused" /\ wpm = 400
    /\ ~isPlaying /\ timers = {} /\ currentWordIndex > 0 /\ out = <<>>

\* from some point on only timer ticks happen: the user operations are
\* finitely many
OnlyTicksEventually == <>[][op' = "tick"]_vars

\* with finitely many user operations the engine ends up not Playing for
\* good, with the timer stopped
C20_Liveness == OnlyTicksEventually => <>[](~isPlaying /\ timers = {})

\* a tick ends playback exactly when it brings Position to the length, that
\* is after length - Position ticks, and then the engine is Finished
C20_TickCount ==
    [][op' = "tick" =>
         /\ currentWordIndex' = currentWordIndex + 1
         /\ (currentWordIndex' = Len(words)) <=> ~isPlaying'
         /\ ~isPlaying' =>
              /\ out' = <<Finished>> /\ timers' = {}
              /\ PlaybackState(Self)' = "Finished"]_vars

\* C20: playback always ends: under weak fairness of timer ticks and with
\* finitely many user operations the engine eventually leaves Playing for
\* good with the timer stopped, and with only ticks it reaches Finished after
\* exactly length - Position of them.
C20_PlaybackEnds == C20_Liveness /\ C20_TickCount

====
